---------------------------- MODULE Spec2Model ----------------------------
(* A model of script/sync.py: the derivation of an S3 object key from a   *)
(* repository path (transform_path_to_s3_key), the upload of one file     *)
(* (upload_to_s3) and the batch loop of the __main__ block.               *)
(*                                                                        *)
(* Python strings that the program takes apart (paths, keys) are          *)
(* sequences of one-character strings; environment values and log tags    *)
(* are TLA+ strings.                                                      *)
EXTENDS Naturals, Integers, Sequences, FiniteSets, TLC

VARIABLES
    environ,             \* os.environ: variable name -> value, or None when unset
    argv,                \* sys.argv[1:]
    pc,                  \* "start", "loop", "exited" ("idle" when only the Key Deriver runs)
    s3_bucket,           \* __main__'s s3_bucket
    idx,                 \* number of entries of files_to_upload the loop has consumed
    all_successful,      \* __main__'s all_successful
    successful_uploads,  \* __main__'s successful_uploads
    skipped_files,       \* __main__'s skipped_files
    exit_code,           \* the process exit status, None while running
    log,                 \* the records handed to logging, in order
    env_read,            \* names of the environment variables read so far
    calls,               \* the calls of upload_to_s3: <<file_path, bucket_name, s3_key>>
    clients,             \* number of boto3.client(...) calls
    puts,                \* the calls of s3_client.upload_file: <<file_path, bucket, key>>
    outcome,             \* per consumed file: "Uploaded", "Failed" or "Skipped"
    fault,               \* position of the file whose transfer raised out of upload_to_s3, 0 if none
    repo_path_str,       \* SpecKey: the argument of transform_path_to_s3_key
    derived,             \* SpecKey: whether the function has been applied
    s3_key               \* SpecKey: the value it returned

vars == <<environ, argv, pc, s3_bucket, idx, all_successful, successful_uploads,
          skipped_files, exit_code, log, env_read, calls, clients, puts, outcome,
          fault, repo_path_str, derived, s3_key>>

mainVars == <<environ, argv, pc, s3_bucket, idx, all_successful, successful_uploads,
              skipped_files, exit_code, log, env_read, calls, clients, puts, outcome,
              fault>>

keyVars == <<repo_path_str, derived, s3_key>>

-----------------------------------------------------------------------------
(* Bounds *)

MaxFiles == 3

MaxSegs == 4

-----------------------------------------------------------------------------
(* Python values *)

None == "None"

\* Python truthiness of an os.environ.get(...) result: None and "" are falsy.
Truthy(v) == v # None /\ v # ""

\* The result of transform_path_to_s3_key: None, or a key string.
NoKey == [isNone |-> TRUE]

SomeKey(k) == [isNone |-> FALSE, val |-> k]

\* `if s3_object_key:` : None and the empty string are falsy.
TruthyKey(k) == ~k.isNone /\ k.val # <<>>

-----------------------------------------------------------------------------
(* pathlib.Path(repo_path_str).parts, POSIX flavour *)

RECURSIVE SplitSep(_, _, _)
SplitSep(s, cur, acc) ==
    IF s = <<>> THEN Append(acc, cur)
    ELSE IF Head(s) = "/" THEN SplitSep(Tail(s), <<>>, Append(acc, cur))
    ELSE SplitSep(Tail(s), Append(cur, Head(s)), acc)

\* The root of a POSIX path: "//" for exactly two leading slashes, "/" for
\* one or for three and more, none otherwise.
PathRoot(s) ==
    IF s = <<>> \/ Head(s) # "/" THEN <<>>
    ELSE IF Len(s) >= 2 /\ s[2] = "/" /\ ~(Len(s) >= 3 /\ s[3] = "/")
         THEN << <<"/", "/">> >>
         ELSE << <<"/">> >>

KeepComponent(c) == c # <<>> /\ c # <<".">>

PathParts(s) == PathRoot(s) \o SelectSeq(SplitSep(s, <<>>, <<>>), KeepComponent)

-----------------------------------------------------------------------------
(* transform_path_to_s3_key *)

RECURSIVE FindFrom(_, _, _)
FindFrom(s, ch, i) ==
    IF i > Len(s) THEN -1
    ELSE IF s[i] = ch THEN i - 1
    ELSE FindFrom(s, ch, i + 1)

RECURSIVE RFindFrom(_, _, _)
RFindFrom(s, ch, i) ==
    IF i < 1 THEN -1
    ELSE IF s[i] = ch THEN i - 1
    ELSE RFindFrom(s, ch, i - 1)

str_rfind(s, ch) == RFindFrom(s, ch, Len(s))

\* str.find: the 0-based index of the first occurrence, -1 when there is none.
str_find(s, ch) == FindFrom(s, ch, 1)

OthersPrefix == <<"o", "t", "h", "e", "r", "s", "/">>

\* f"others/{category}/{filename}"
FormatKey(category, filename) == OthersPrefix \o category \o <<"/">> \o filename

\* The except branch (lines 52-54) is left out: for a str argument neither
\* pathlib.Path, .parts, str.find nor slicing raises.
transform_path_to_s3_key(path) ==
    LET parts == PathParts(path) IN
    IF Len(parts) >= 3
    THEN LET first_dir == parts[1]
             filename == parts[Len(parts)]
             underscore_index == str_find(first_dir, "_")
         IN IF underscore_index > 0
            THEN LET category == SubSeq(first_dir, underscore_index + 2, Len(first_dir))
                 IN SomeKey(FormatKey(category, filename))
            ELSE NoKey
    ELSE NoKey

\* What transform_path_to_s3_key logs for `path`.
transform_log(path) ==
    LET parts == PathParts(path) IN
    IF Len(parts) >= 3
    THEN IF str_find(parts[1], "_") > 0
         THEN << <<"INFO", "path_converted", path, transform_path_to_s3_key(path).val>> >>
         ELSE << <<"WARNING", "first_dir_mismatch", path>> >>
    ELSE << <<"WARNING", "structure_mismatch", path>> >>

-----------------------------------------------------------------------------
(* upload_to_s3 *)

\* all([...]) with aws_region left out of the list.
all_config_without_region(access_key, secret_key, region, bucket_name) ==
    Truthy(access_key) /\ Truthy(secret_key) /\ Truthy(bucket_name)

\* any([...]) written for all([...]).
any_config(access_key, secret_key, region, bucket_name) ==
    Truthy(access_key) \/ Truthy(secret_key) \/ Truthy(region) \/ Truthy(bucket_name)

\* all([aws_access_key_id, aws_secret_access_key, aws_region, bucket_name])
all_config(access_key, secret_key, region, bucket_name) ==
    Truthy(access_key) /\ Truthy(secret_key) /\ Truthy(region) /\ Truthy(bucket_name)

\* What s3_client.upload_file may do: return, or raise. The except clauses
\* of upload_to_s3 name two exception classes; "OtherException" stands for
\* every exception that is an instance of neither (boto3's
\* S3UploadFailedError, botocore's EndpointConnectionError and the other
\* BotoCoreError transport errors, ...).
Responses == {"ok", "FileNotFoundError", "ClientError", "OtherException"}

UploadEnvNames == {"AWS_ACCESS_KEY_ID", "AWS_SECRET_ACCESS_KEY", "AWS_REGION", "S3_ENDPOINT"}

\* One call of upload_to_s3 in environment env, the storage client answering
\* resp. ret is the returned value (meaningless when raised), raised tells
\* whether an exception left the function.
upload_to_s3(env, file_path, bucket_name, key, resp) ==
    IF ~all_config(env["AWS_ACCESS_KEY_ID"], env["AWS_SECRET_ACCESS_KEY"],
                   env["AWS_REGION"], bucket_name)
    THEN [ret |-> FALSE, raised |-> FALSE, clients |-> 0, puts |-> <<>>,
          log |-> << <<"ERROR", "missing_aws_config">> >>]
    ELSE LET put == << <<file_path, bucket_name, key>> >>
             begun == << <<"INFO", "uploading", file_path, key>> >>
         IN CASE resp = "ok" ->
                   [ret |-> TRUE, raised |-> FALSE, clients |-> 1, puts |-> put,
                    log |-> Append(begun, <<"INFO", "uploaded", file_path, key>>)]
              [] resp = "FileNotFoundError" ->
                   [ret |-> FALSE, raised |-> FALSE, clients |-> 1, puts |-> put,
                    log |-> Append(begun, <<"ERROR", "file_not_found", file_path>>)]
              [] resp = "ClientError" ->
                   [ret |-> FALSE, raised |-> FALSE, clients |-> 1, puts |-> put,
                    log |-> Append(begun, <<"ERROR", "client_error", file_path>>)]
              [] OTHER ->
                   [ret |-> FALSE, raised |-> TRUE, clients |-> 1, puts |-> put,
                    log |-> begun]

-----------------------------------------------------------------------------
(* __main__ *)

\* The status of a Python process that ends on an uncaught exception.
UncaughtExitStatus == 1

\* The empty-list test placed before the bucket test.
StartupBranchFilesFirst(bucket, files) ==
    IF files = <<>> THEN "no_files"
    ELSE IF ~Truthy(bucket) THEN "no_bucket"
    ELSE "batch"

\* The empty-list test left out.
StartupBranchNoEmptyTest(bucket, files) ==
    IF ~Truthy(bucket) THEN "no_bucket" ELSE "batch"

\* The two tests before the loop, in the order of the code.
StartupBranch(bucket, files) ==
    IF ~Truthy(bucket) THEN "no_bucket"
    ELSE IF files = <<>> THEN "no_files"
    ELSE "batch"

\* The naive variant: the repository path itself as the object key.
UploadArgsIdentityKey(file_path, bucket, key) == <<file_path, bucket, file_path>>

\* The arguments of the call upload_to_s3(file_path, s3_bucket, s3_object_key).
UploadArgs(file_path, bucket, key) == <<file_path, bucket, key>>

\* sys.exit(0) on both branches.
FinalExitStatusAlwaysZero(ok) == 0

\* The exit status after the summary.
FinalExitStatus(ok) == IF ok THEN 0 ELSE 1

\* Lines 98-118: read S3_BUCKET_NAME, leave with 1 when it is falsy, with 0
\* when there is no argument, otherwise announce the files and enter the loop.
Startup ==
    /\ pc = "start"
    /\ s3_bucket' = environ["S3_BUCKET_NAME"]
    /\ env_read' = env_read \cup {"S3_BUCKET_NAME"}
    /\ LET branch == StartupBranch(environ["S3_BUCKET_NAME"], argv)
       IN IF branch = "no_bucket"
          THEN /\ log' = Append(log, <<"ERROR", "bucket_unset">>)
               /\ exit_code' = 1
               /\ pc' = "exited"
          ELSE IF branch = "no_files"
          THEN /\ log' = Append(log, <<"INFO", "nothing_to_upload">>)
               /\ exit_code' = 0
               /\ pc' = "exited"
          ELSE /\ log' = log \o << <<"INFO", "preparing">> >>
                             \o [i \in 1..Len(argv) |-> <<"INFO", "listed", argv[i]>>]
               /\ exit_code' = None
               /\ pc' = "loop"
    /\ all_successful' = TRUE
    /\ successful_uploads' = 0
    /\ skipped_files' = 0
    /\ UNCHANGED <<environ, argv, idx, calls, clients, puts, outcome, fault>>
    /\ UNCHANGED keyVars

\* Lines 120-134: one iteration of the loop over files_to_upload.
ProcessFile ==
    /\ pc = "loop"
    /\ idx < Len(argv)
    /\ LET file_path == argv[idx + 1]
           s3_object_key == transform_path_to_s3_key(file_path)
       IN IF TruthyKey(s3_object_key)
          THEN \E resp \in Responses :
               LET args == UploadArgs(file_path, s3_bucket, s3_object_key.val)
                   r == upload_to_s3(environ, args[1], args[2], args[3], resp)
               IN /\ calls' = Append(calls, args)
                  /\ env_read' = env_read \cup UploadEnvNames
                  /\ clients' = clients + r.clients
                  /\ puts' = puts \o r.puts
                  /\ UNCHANGED <<skipped_files, successful_uploads>>
                  /\ IF r.raised
                     THEN /\ log' = log \o transform_log(file_path) \o r.log
                                        \o << <<"TRACEBACK", resp>> >>
                          /\ exit_code' = UncaughtExitStatus
                          /\ pc' = "exited"
                          /\ fault' = idx + 1
                          /\ UNCHANGED <<idx, outcome, all_successful>>
                     ELSE /\ all_successful' = IF ~r.ret THEN FALSE ELSE all_successful
                          /\ log' = log \o transform_log(file_path) \o r.log
                                        \o (IF ~r.ret
                                            THEN << <<"ERROR", "upload_failed", file_path,
                                                      s3_object_key.val>> >>
                                            ELSE <<>>)
                          /\ outcome' = Append(outcome, IF r.ret THEN "Uploaded" ELSE "Failed")
                          /\ idx' = idx + 1
                          /\ UNCHANGED <<exit_code, pc, fault>>
          ELSE /\ log' = log \o transform_log(file_path)
                             \o << <<"WARNING", "skipped", file_path>> >>
               /\ skipped_files' = skipped_files + 1
               /\ outcome' = Append(outcome, "Skipped")
               /\ idx' = idx + 1
               /\ UNCHANGED <<calls, env_read, clients, puts, successful_uploads,
                              all_successful, exit_code, pc, fault>>
    /\ UNCHANGED <<environ, argv, s3_bucket>>
    /\ UNCHANGED keyVars

\* Lines 136-143: the summary and the exit status.
Summary ==
    /\ pc = "loop"
    /\ idx = Len(argv)
    /\ log' = log \o << <<"INFO", "summary", successful_uploads, skipped_files>>,
                        IF all_successful THEN <<"INFO", "all_uploaded">>
                                          ELSE <<"ERROR", "some_failed">> >>
    /\ exit_code' = FinalExitStatus(all_successful)
    /\ pc' = "exited"
    /\ UNCHANGED <<environ, argv, s3_bucket, idx, all_successful, successful_uploads,
                   skipped_files, env_read, calls, clients, puts, outcome, fault>>
    /\ UNCHANGED keyVars

-----------------------------------------------------------------------------
(* The process: any environment, any argument list over FilePool *)

Str_1_a_d_f == <<"1", "_", "a", "/", "d", "/", "f">>

Str_2_b_c_d_e_g == <<"2", "_", "b", "_", "c", "/", "d", "/", "e", "/", "g">>

Str_ab_d_f == <<"a", "b", "/", "d", "/", "f">>

Str_1_a_f == <<"1", "_", "a", "/", "f">>

FilePool == {Str_1_a_d_f, Str_2_b_c_d_e_g, Str_ab_d_f, Str_1_a_f}

EnvNames == UploadEnvNames \cup {"S3_BUCKET_NAME"}

EnvValues(n) == IF n = "S3_ENDPOINT" THEN {None, "v"} ELSE {None, "", "v"}

ArgLists == UNION {[1..n -> FilePool] : n \in 0..MaxFiles}

KeyIdle ==
    /\ repo_path_str = <<>>
    /\ derived = FALSE
    /\ s3_key = NoKey

MainIdle ==
    /\ environ = [n \in EnvNames |-> None]
    /\ argv = <<>>
    /\ pc = "idle"
    /\ s3_bucket = None
    /\ idx = 0
    /\ all_successful = TRUE
    /\ successful_uploads = 0
    /\ skipped_files = 0
    /\ exit_code = None
    /\ log = <<>>
    /\ env_read = {}
    /\ calls = <<>>
    /\ clients = 0
    /\ puts = <<>>
    /\ outcome = <<>>
    /\ fault = 0

Init ==
    /\ environ \in {e \in [EnvNames -> {None, "", "v"}] : \A n \in EnvNames : e[n] \in EnvValues(n)}
    /\ argv \in ArgLists
    /\ pc = "start"
    /\ s3_bucket = None
    /\ idx = 0
    /\ all_successful = TRUE
    /\ successful_uploads = 0
    /\ skipped_files = 0
    /\ exit_code = None
    /\ log = <<>>
    /\ env_read = {}
    /\ calls = <<>>
    /\ clients = 0
    /\ puts = <<>>
    /\ outcome = <<>>
    /\ fault = 0
    /\ KeyIdle

Next ==
    \/ Startup
    \/ ProcessFile
    \/ Summary

Spec == Init /\ [][Next]_vars

-----------------------------------------------------------------------------
(* The Key Deriver alone: any path built of SegPool segments *)

SegPool == {<<>>, <<".">>, <<"a">>, <<"_", "a">>, <<"1", "_">>, <<"1", "_", "a">>,
            <<"1", "_", "a", "_", "b">>, <<"1", "_", "_", "a">>}

RECURSIVE JoinSep(_)
JoinSep(segs) ==
    IF segs = <<>> THEN <<>>
    ELSE IF Len(segs) = 1 THEN segs[1]
    ELSE segs[1] \o <<"/">> \o JoinSep(Tail(segs))

PathPool == {JoinSep(segs) : segs \in UNION {[1..n -> SegPool] : n \in 0..MaxSegs}}

InitKey ==
    /\ repo_path_str \in PathPool
    /\ derived = FALSE
    /\ s3_key = NoKey
    /\ MainIdle

Derive ==
    /\ ~derived
    /\ derived' = TRUE
    /\ s3_key' = transform_path_to_s3_key(repo_path_str)
    /\ UNCHANGED repo_path_str
    /\ UNCHANGED mainVars

NextKey == Derive

SpecKey == InitKey /\ [][NextKey]_vars

-----------------------------------------------------------------------------
(* Vocabulary of the properties *)

Bucket == environ["S3_BUCKET_NAME"]

BucketMissing == ~Truthy(Bucket)

\* One of the three credential variables upload_to_s3 reads is missing.
CredentialMissing ==
    \/ ~Truthy(environ["AWS_ACCESS_KEY_ID"])
    \/ ~Truthy(environ["AWS_SECRET_ACCESS_KEY"])
    \/ ~Truthy(environ["AWS_REGION"])

Positions(seq, v) == {i \in 1..Len(seq) : seq[i] = v}

CountOf(seq, v) == Cardinality(Positions(seq, v))

\* Log records that report a configuration failure.
ConfigReports == {i \in 1..Len(log) : log[i][2] \in {"bucket_unset", "missing_aws_config"}}

\* Log records written by the Key Deriver.
DeriveReports ==
    {i \in 1..Len(log) :
        log[i][2] \in {"path_converted", "first_dir_mismatch", "structure_mismatch"}}

SummaryReports == {i \in 1..Len(log) : log[i][2] = "summary"}

\* The batch ran to its summary.
Completed == pc = "exited" /\ SummaryReports # {}

\* Number of files the loop has taken up: those with an outcome, and the one
\* whose transfer raised.
Consumed == Len(outcome) + (IF fault # 0 THEN 1 ELSE 0)

\* i is the 1-based position of the first underscore of seg.
FirstUnderscoreAt(seg, i) ==
    /\ i \in 1..Len(seg)
    /\ seg[i] = "_"
    /\ \A j \in 1..(i - 1) : seg[j] # "_"

IsAccepted(path) == ~transform_path_to_s3_key(path).isNone

IsRejected(path) == transform_path_to_s3_key(path).isNone

-----------------------------------------------------------------------------
-----------------------------------------------------------------------------
(* C2: the exit status is 1 if S3_BUCKET_NAME is unset (falsy, as the code *)
(* tests it) or if at least one file of the batch failed, and 0 otherwise; *)
(* a batch whose files are all skipped exits 0. A file failed when         *)
(* upload_to_s3 returned False for it or its transfer raised.              *)
C2_ExitStatus ==
    pc = "exited" =>
        exit_code = IF BucketMissing \/ Positions(outcome, "Failed") # {} \/ fault # 0
                    THEN 1 ELSE 0

\* A batch of skipped files only has left with 0.
C2_Witness ==
    /\ pc = "exited"
    /\ Len(outcome) >= 2
    /\ \A i \in 1..Len(outcome) : outcome[i] = "Skipped"
    /\ exit_code = 0

\* A batch with an uploaded, a skipped and a failed file has left with 1.
C2_WitnessFailed ==
    /\ pc = "exited"
    /\ outcome = <<"Uploaded", "Skipped", "Failed">>
    /\ exit_code = 1

-----------------------------------------------------------------------------
-----------------------------------------------------------------------------
(* C4: whatever the storage client raises during a transfer, upload_to_s3  *)
(* returns Failed for the file, nothing propagates out of the loop, and    *)
(* the batch runs to completion: the summary and the exit.                 *)
C4_AllFaultsCaught ==
    /\ fault = 0
    /\ \A i \in 1..Len(log) : log[i][1] # "TRACEBACK"
    /\ (pc = "exited" /\ ~BucketMissing /\ argv # <<>>) =>
          Completed /\ Len(outcome) = Len(argv)

-----------------------------------------------------------------------------
(* C5, as stated: whenever the input file list is empty, the process ends  *)
(* with status 0 and makes no upload attempt.                              *)
C5_Original ==
    (pc = "exited" /\ argv = <<>>) => exit_code = 0 /\ calls = <<>> /\ puts = <<>>

(* C5, amended: whenever the input file list is empty and S3_BUCKET_NAME   *)
(* is set, the process logs that there is nothing to upload and ends with  *)
(* status 0; with S3_BUCKET_NAME unset it ends with status 1; in both      *)
(* cases no upload is attempted.                                           *)
C5_EmptyList ==
    (pc = "exited" /\ argv = <<>>) =>
        /\ calls = <<>> /\ puts = <<>> /\ clients = 0
        /\ IF BucketMissing
           THEN exit_code = 1
           ELSE exit_code = 0 /\ log = << <<"INFO", "nothing_to_upload">> >>

\* The empty list with the bucket set has left with 0.
C5_Witness ==
    /\ pc = "exited"
    /\ argv = <<>>
    /\ ~BucketMissing
    /\ exit_code = 0

-----------------------------------------------------------------------------
(* C6: when S3_BUCKET_NAME is unset the process exits at once with status  *)
(* 1 for every input list: no other credential variable is read, no path   *)
(* is derived, no upload is attempted.                                     *)
C6_NoBucket ==
    BucketMissing =>
        /\ pc \in {"start", "exited"}
        /\ pc = "exited" => exit_code = 1 /\ log = << <<"ERROR", "bucket_unset">> >>
        /\ env_read \subseteq {"S3_BUCKET_NAME"}
        /\ DeriveReports = {}
        /\ Consumed = 0
        /\ calls = <<>> /\ puts = <<>> /\ clients = 0

\* The bucket unset, every credential set, a list of accepted files: exit 1.
C6_Witness ==
    /\ pc = "exited"
    /\ Bucket = None
    /\ ~CredentialMissing
    /\ Len(argv) >= 2
    /\ \A i \in 1..Len(argv) : IsAccepted(argv[i])
    /\ exit_code = 1

\* The empty list with the bucket unset.
C6_WitnessEmpty ==
    /\ pc = "exited"
    /\ BucketMissing
    /\ argv = <<>>

-----------------------------------------------------------------------------
(* C7: when the batch completes, the summary reports the number of files   *)
(* whose upload returned Uploaded, the number of files the Key Deriver     *)
(* rejected, and the all-succeeded flag is true exactly when no file       *)
(* Failed.                                                                 *)
C7_SummaryCounts ==
    Completed =>
        /\ \A i \in SummaryReports :
              /\ log[i][3] = CountOf(outcome, "Uploaded")
              /\ log[i][4] = CountOf(outcome, "Skipped")
        /\ all_successful <=> (CountOf(outcome, "Failed") = 0)

-----------------------------------------------------------------------------
(* C8: when an upload returns Failed for the file at position i, the batch *)
(* is marked not-all-succeeded and every file at a position after i is     *)
(* still processed (derived, and uploaded if accepted).                    *)
C8_FailedDoesNotAbort ==
    \A i \in Positions(outcome, "Failed") :
        /\ ~all_successful
        /\ pc = "exited" => \A j \in (i + 1)..Len(argv) : j <= Consumed

-----------------------------------------------------------------------------
-----------------------------------------------------------------------------
(* C10: a transfer is attempted only when the access key, the secret key,  *)
(* the region and the bucket name are all non-empty: upload_to_s3 called   *)
(* with one of them missing returns Failed without creating a client or    *)
(* performing a put.                                                       *)
C10_NoPutWithoutConfig ==
    LET complete == /\ Truthy(environ["AWS_ACCESS_KEY_ID"])
                    /\ Truthy(environ["AWS_SECRET_ACCESS_KEY"])
                    /\ Truthy(environ["AWS_REGION"])
                    /\ Truthy(s3_bucket)
    IN /\ (puts # <<>> \/ clients > 0) => complete
       /\ (~complete /\ calls # <<>>) =>
             /\ fault = 0
             /\ CountOf(outcome, "Failed") = Len(calls)
             /\ CountOf(outcome, "Uploaded") = 0

\* upload_to_s3 called with an empty AWS_SECRET_ACCESS_KEY: Failed, no put.
C10_Witness ==
    /\ environ["AWS_SECRET_ACCESS_KEY"] = ""
    /\ Truthy(environ["AWS_ACCESS_KEY_ID"])
    /\ Truthy(environ["AWS_REGION"])
    /\ calls # <<>>
    /\ CountOf(outcome, "Failed") = Len(calls)
    /\ puts = <<>>
    /\ clients = 0

=============================================================================
